---- MODULE Spec2Model ----
(***************************************************************************)
(* A model of fmask/cmdline/sentinel2Stacked.py: one run of mainRoutine,   *)
(* from the import of the module to its return or to the exception that    *)
(* ends it.  The state is the arguments object, the local variables of     *)
(* mainRoutine and makeStackAndAngles, the files the run can see or make,  *)
(* and a record of the calls made to the external tools.                   *)
(*                                                                         *)
(* What the run reads from its environment (the entries of a directory,    *)
(* the pixel size of a raster, whether a command is installed, whether an  *)
(* external call succeeds) is drawn at the step that reads it.             *)
(***************************************************************************)
EXTENDS Integers, Sequences, FiniteSets, TLC

\* The most entries one glob pattern matches in a modelled directory.
MaxMatches == 2

\* Python's None, where a path is expected.
None == <<"None", "None">>

\* The pixel sizes (metres) of the rasters of a scene, and the --pixsize values.
PixSizes == {10, 20, 60}

\* The pixel sizes, per axis, an angle raster or a supplied stack may have.
GridSizes == {10, 20}

Grids == [xRes : GridSizes, yRes : GridSizes]

\* bandList of makeStackAndAngles.
bandList ==
    <<"B01", "B02", "B03", "B04", "B05", "B06", "B07", "B08", "B8A",
      "B09", "B10", "B11", "B12">>

\* What the caller can name on the command line.
UserSafeDir == <<"S2A_MSIL1C.SAFE", "">>
UserGranuleDir == <<"S2A_MSIL1C.SAFE/GRANULE/L1C_USER", "">>
UserToa == <<"user_toa", ".img">>
UserAngles == <<"user_angles", ".img">>
UserOutput == <<"cloud", ".img">>

\* tempfile.mkstemp: a new file whose name is prefix + random part + suffix.
Mkstemp(prefix, suffix) == <<prefix, suffix>>

AnglesTmp == Mkstemp("angles_tmp_", ".img")
TmpBand(band) == Mkstemp("tmp_" \o band \o "_", ".vrt")
TmpStack == Mkstemp("tmp_allbands_", ".img")
AnglesVrt == Mkstemp("angles", ".vrt")

AllTmpBands == {TmpBand(bandList[i]) : i \in 1..Len(bandList)}

\* The name the n-th match of a glob gets in a modelled directory.
GranuleName(n) == <<"GRANULE/L1C_T" \o ToString(n), "">>
MtdTl == <<"MTD_TL", "xml">>
OtherXml(n) == <<"S2A_OPER_MTD_L1C_TL_" \o ToString(n), "xml">>
ImgDataEntry == <<"IMG_DATA", "">>

NoErr == [kind |-> "none", at |-> "none", band |-> "none"]
Raise(kind, at, band) == [kind |-> kind, at |-> at, band |-> band]

NoWarp == [band |-> "none", src |-> "none", inPixsize |-> 0, outPixsize |-> 0,
           method |-> "none"]

NoGrid == [xRes |-> 0, yRes |-> 0]

\* The two buffer distances before line 316 reads them, and the buffer sizes
\* before lines 316-317 set them.
NoBuffer == [cloudbufferdistance |-> 0, shadowbufferdistance |-> 0]
NoConfig == [cloudBufferSize |-> 0, shadowBufferSize |-> 0]

\* The buffer distances (metres) a caller may give: the defaults of lines
\* 96-99, and others.
BufferDistances ==
    {[cloudbufferdistance |-> 150, shadowbufferdistance |-> 300],
     [cloudbufferdistance |-> -25, shadowbufferdistance |-> 45],
     [cloudbufferdistance |-> 0, shadowbufferdistance |-> 310]}

\* One operation of the pipeline, and the files it is given.
Call(name, files) == [name |-> name, files |-> files]

\* The files among those of a list.
Range(seq) == {seq[i] : i \in 1..Len(seq)}

\* os.remove of each file of a set, by the statement `by`.
Removed(files, by) == {[path |-> f, by |-> by] : f \in files}

VARIABLES
    pc,             \* the statement the run is at, or done / failed / exited
    argv,           \* the arguments as the caller gave them
    cmdargs,        \* the arguments object, which makeStackAndAngles writes to
    err,            \* the exception that ended the run
    disk,           \* the files that exist, among those the run can name
    created,        \* every temporary file the run made (mkstemp)
    deleted,        \* every os.remove the run did: [path, by]
    granuleDirList, \* what glob returned in findGranuleDir
    xmlDir,         \* the entries of the granule directory
    xmlfile,        \* what findGranuleXml returned
    imgDir,         \* the entries of IMG_DATA, in the order the disk lists them
    resampledBands, \* the list of makeStackAndAngles
    vrtSrc,         \* for each band intermediate written, the source it wraps
    lastWarp,       \* the last band resample call made
    mergeCalls,     \* the calls of gdal_merge.py: the inputs of each, in order
    tempStack,      \* the local of mainRoutine
    anglesfile,     \* the local of mainRoutine: the angles file to use
    toaImgInfo,     \* the pixel size read from the stack
    anglesImgInfo,  \* the pixel size read from the angles file
    fmaskCalls,     \* the calls of fmask.doFmask: the files and buffer sizes given
    bufferArgs,     \* cmdargs.cloudbufferdistance and cmdargs.shadowbufferdistance
    fmaskConfig,    \* the buffer sizes set on the FmaskConfig object
    calls           \* the operations of the pipeline, in the order they were called

vars ==
    <<pc, argv, cmdargs, err, disk, created, deleted, granuleDirList, xmlDir,
      xmlfile, imgDir, resampledBands, vrtSrc, lastWarp, mergeCalls, tempStack,
      anglesfile, toaImgInfo, anglesImgInfo, fmaskCalls, bufferArgs,
      fmaskConfig, calls>>

\* The arguments a caller can give (argparse, lines 61-117).
Args ==
    [safedir : {None, UserSafeDir},
     granuledir : {None, UserGranuleDir},
     toa : {None, UserToa},
     anglesfile : {None, UserAngles},
     output : {None, UserOutput},
     keepintermediates : BOOLEAN,
     pixsize : PixSizes]

\* The files of the caller that exist when the run starts.
UserFiles(a) == ({a.toa} \cup {a.anglesfile}) \ {None}

Init ==
    /\ pc = "import"
    /\ argv \in Args
    /\ cmdargs = argv
    /\ err = NoErr
    /\ disk = UserFiles(argv)
    /\ created = {}
    /\ deleted = {}
    /\ granuleDirList = <<>>
    /\ xmlDir = <<>>
    /\ xmlfile = None
    /\ imgDir = <<>>
    /\ resampledBands = <<>>
    /\ vrtSrc = <<>>
    /\ lastWarp = NoWarp
    /\ mergeCalls = <<>>
    /\ tempStack = FALSE
    /\ anglesfile = None
    /\ toaImgInfo = NoGrid
    /\ anglesImgInfo = NoGrid
    /\ fmaskCalls = <<>>
    /\ bufferArgs = NoBuffer
    /\ fmaskConfig = NoConfig
    /\ calls = <<>>

\* An exception that is caught where it is raised: the step is tried again.
Fail_Retry(e) ==
    /\ pc' = pc
    /\ err' = e

\* An exception leaves the function and then mainRoutine: nothing else runs.
Fail(e) ==
    /\ pc' = "failed"
    /\ err' = e

\* Lines 47-54: the module looks for gdalwarp when it is imported.
LoadModule ==
    /\ pc = "import"
    /\ \E found \in BOOLEAN :
         IF found
         THEN pc' = "getCmdargs" /\ err' = err
         ELSE Fail(Raise("FmaskInstallationError", "import", "none"))
    /\ UNCHANGED <<argv, cmdargs, disk, created, deleted, granuleDirList,
                   xmlDir, xmlfile, imgDir, resampledBands, vrtSrc, lastWarp,
                   mergeCalls, tempStack, anglesfile, toaImgInfo, anglesImgInfo,
                   fmaskCalls>>
    /\ UNCHANGED <<bufferArgs, fmaskConfig, calls>>

\* Lines 119-131 without the test of lines 122-125.
ArgsAccepted_BothDirs(a) ==
    LET safeDirGiven == a.safedir # None
        granuleDirGiven == a.granuledir # None
        stackAnglesGiven == a.toa # None /\ a.anglesfile # None
        multipleInputGiven == (safeDirGiven \/ granuleDirGiven) /\ stackAnglesGiven
        inputGiven == safeDirGiven \/ granuleDirGiven \/ stackAnglesGiven
    IN  ~(a.output = None \/ multipleInputGiven \/ ~inputGiven)

\* Lines 119-131: the sanity checks of getCmdargs; TRUE when it returns.
ArgsAccepted(a) ==
    LET safeDirGiven == a.safedir # None
        granuleDirGiven == a.granuledir # None
        stackAnglesGiven == a.toa # None /\ a.anglesfile # None
        multipleInputGiven == (safeDirGiven \/ granuleDirGiven) /\ stackAnglesGiven
        inputGiven == safeDirGiven \/ granuleDirGiven \/ stackAnglesGiven
    IN  /\ ~(granuleDirGiven /\ safeDirGiven)
        /\ ~(a.output = None \/ multipleInputGiven \/ ~inputGiven)

GetCmdargs ==
    /\ pc = "getCmdargs"
    /\ IF ArgsAccepted(cmdargs)
       THEN pc' = "main" /\ err' = err
       ELSE pc' = "exited" /\ err' = Raise("SystemExit", "getCmdargs", "none")
    /\ UNCHANGED <<argv, cmdargs, disk, created, deleted, granuleDirList,
                   xmlDir, xmlfile, imgDir, resampledBands, vrtSrc, lastWarp,
                   mergeCalls, tempStack, anglesfile, toaImgInfo, anglesImgInfo,
                   fmaskCalls>>
    /\ UNCHANGED <<bufferArgs, fmaskConfig, calls>>

\* Line 291 with the test left out: every run builds its stack.
BuildsStack_Always(a) == TRUE

\* Lines 290-293: whether this run builds the stack and the angles itself.
BuildsStack(a) == a.safedir # None \/ a.granuledir # None

StartMain ==
    /\ pc = "main"
    /\ tempStack' = BuildsStack(cmdargs)
    /\ pc' = IF BuildsStack(cmdargs) THEN "findGranuleDir" ELSE "checkAnglesFile"
    /\ UNCHANGED <<argv, cmdargs, err, disk, created, deleted, granuleDirList,
                   xmlDir, xmlfile, imgDir, resampledBands, vrtSrc, lastWarp,
                   mergeCalls, anglesfile, toaImgInfo, anglesImgInfo, fmaskCalls>>
    /\ UNCHANGED <<bufferArgs, fmaskConfig, calls>>

\* Lines 256-257: glob of <safedir>/GRANULE/L1C_*, n matches.
GranuleMatches(n) == [i \in 1..n |-> GranuleName(i)]

\* Lines 258-266 of findGranuleDir, on what glob returned.
findGranuleDir(list) ==
    IF Len(list) = 0
    THEN [ok |-> FALSE, granuleDir |-> None,
          err |-> Raise("FmaskFileError", "findGranuleDir", "none")]
    ELSE IF Len(list) > 1
    THEN [ok |-> FALSE, granuleDir |-> None,
          err |-> Raise("FmaskFileError", "findGranuleDir", "none")]
    ELSE [ok |-> TRUE, granuleDir |-> list[1], err |-> NoErr]

\* Lines 169-170 of makeStackAndAngles.
FindGranuleDirStep ==
    /\ pc = "findGranuleDir"
    /\ IF cmdargs.granuledir = None /\ cmdargs.safedir # None
       THEN \E n \in 0..MaxMatches :
              LET r == findGranuleDir(GranuleMatches(n))
              IN  /\ granuleDirList' = GranuleMatches(n)
                  /\ calls' = Append(calls, Call("findGranuleDir", {cmdargs.safedir}))
                  /\ IF r.ok
                     THEN /\ cmdargs' = [cmdargs EXCEPT !.granuledir = r.granuleDir]
                          /\ pc' = "findGdalMerge"
                          /\ err' = err
                     ELSE /\ cmdargs' = cmdargs
                          /\ Fail(r.err)
       ELSE /\ pc' = "findGdalMerge"
            /\ UNCHANGED <<cmdargs, err, granuleDirList, calls>>
    /\ UNCHANGED <<argv, disk, created, deleted, xmlDir, xmlfile, imgDir,
                   resampledBands, vrtSrc, lastWarp, mergeCalls, tempStack,
                   anglesfile, toaImgInfo, anglesImgInfo, fmaskCalls>>
    /\ UNCHANGED <<bufferArgs, fmaskConfig>>

\* Lines 173-176 placed after lines 179-181: the angles file is made first.
FindGdalMerge_AfterMkstemp ==
    /\ pc = "findGdalMerge"
    /\ disk' = disk \cup {AnglesTmp}
    /\ created' = created \cup {AnglesTmp}
    /\ \E found \in BOOLEAN :
         IF found
         THEN pc' = "findGranuleXml" /\ err' = err
         ELSE Fail(Raise("FmaskInstallationError", "find_executable", "none"))
    /\ UNCHANGED <<argv, cmdargs, deleted, granuleDirList,
                   xmlDir, xmlfile, imgDir, resampledBands, vrtSrc, lastWarp,
                   mergeCalls, tempStack, anglesfile, toaImgInfo, anglesImgInfo,
                   fmaskCalls>>
    /\ UNCHANGED <<bufferArgs, fmaskConfig, calls>>

\* Lines 173-176: find_executable("gdal_merge.py").
FindGdalMerge ==
    /\ pc = "findGdalMerge"
    /\ \E found \in BOOLEAN :
         IF found
         THEN pc' = "mkstempAngles" /\ err' = err
         ELSE Fail(Raise("FmaskInstallationError", "find_executable", "none"))
    /\ UNCHANGED <<argv, cmdargs, disk, created, deleted, granuleDirList,
                   xmlDir, xmlfile, imgDir, resampledBands, vrtSrc, lastWarp,
                   mergeCalls, tempStack, anglesfile, toaImgInfo, anglesImgInfo,
                   fmaskCalls>>
    /\ UNCHANGED <<bufferArgs, fmaskConfig, calls>>

\* Lines 179-181: the temporary file of the angles image.
MkstempAngles ==
    /\ pc = "mkstempAngles"
    /\ AnglesTmp \notin disk
    /\ disk' = disk \cup {AnglesTmp}
    /\ created' = created \cup {AnglesTmp}
    /\ pc' = "findGranuleXml"
    /\ UNCHANGED <<argv, cmdargs, err, deleted, granuleDirList, xmlDir, xmlfile,
                   imgDir, resampledBands, vrtSrc, lastWarp, mergeCalls,
                   tempStack, anglesfile, toaImgInfo, anglesImgInfo, fmaskCalls>>
    /\ UNCHANGED <<bufferArgs, fmaskConfig, calls>>

\* A granule directory: MTD_TL.xml or not, n other XML files, and IMG_DATA.
GranuleEntries(mtd, n) ==
    (IF mtd THEN <<MtdTl>> ELSE <<>>) \o [i \in 1..n |-> OtherXml(i)]
        \o <<ImgDataEntry>>

\* os.path.exists of a file of a directory.
Exists(dir, name) == \E i \in 1..Len(dir) : dir[i] = name

IsXml(f) == f[2] = "xml"

\* glob of <dir>/*.xml.
GlobXml(dir) == SelectSeq(dir, IsXml)

\* Lines 273-282 with line 278 taking the first of several matches.
findGranuleXml_AnyMatch(dir) ==
    IF ~Exists(dir, MtdTl)
    THEN LET xmlfileList == GlobXml(dir)
         IN  IF Len(xmlfileList) >= 1
             THEN [ok |-> TRUE, xmlfile |-> xmlfileList[1], err |-> NoErr]
             ELSE [ok |-> FALSE, xmlfile |-> None,
                   err |-> Raise("FmaskFileError", "findGranuleXml", "none")]
    ELSE [ok |-> TRUE, xmlfile |-> MtdTl, err |-> NoErr]

\* Lines 273-282 of findGranuleXml, on the entries of the granule directory.
findGranuleXml(dir) ==
    IF ~Exists(dir, MtdTl)
    THEN LET xmlfileList == GlobXml(dir)
         IN  IF Len(xmlfileList) = 1
             THEN [ok |-> TRUE, xmlfile |-> xmlfileList[1], err |-> NoErr]
             ELSE [ok |-> FALSE, xmlfile |-> None,
                   err |-> Raise("FmaskFileError", "findGranuleXml", "none")]
    ELSE [ok |-> TRUE, xmlfile |-> MtdTl, err |-> NoErr]

\* Line 182 of makeStackAndAngles.
FindGranuleXmlStep ==
    /\ pc = "findGranuleXml"
    /\ \E mtd \in BOOLEAN, n \in 0..MaxMatches :
         LET dir == GranuleEntries(mtd, n)
             r == findGranuleXml(dir)
         IN  /\ xmlDir' = dir
             /\ xmlfile' = r.xmlfile
             /\ IF r.ok
                THEN pc' = "makeAngles" /\ err' = err
                ELSE Fail(r.err)
    /\ UNCHANGED <<argv, cmdargs, disk, created, deleted, granuleDirList,
                   imgDir, resampledBands, vrtSrc, lastWarp, mergeCalls,
                   tempStack, anglesfile, toaImgInfo, anglesImgInfo, fmaskCalls>>
    /\ UNCHANGED <<bufferArgs, fmaskConfig>>
    /\ calls' = Append(calls, Call("findGranuleXml", {cmdargs.granuledir}))

\* Lines 185-186: sentinel2makeAnglesImage.makeAngles writes the angles image.
MakeAngles ==
    /\ pc = "makeAngles"
    /\ \E ok \in BOOLEAN :
         IF ok
         THEN /\ cmdargs' = [cmdargs EXCEPT !.anglesfile = AnglesTmp]
              /\ pc' = "resampleBands"
              /\ err' = err
         ELSE /\ cmdargs' = cmdargs
              /\ Fail(Raise("makeAnglesError", "makeAngles", "none"))
    /\ UNCHANGED <<argv, disk, created, deleted, granuleDirList, xmlDir, xmlfile,
                   imgDir, resampledBands, vrtSrc, lastWarp, mergeCalls,
                   tempStack, anglesfile, toaImgInfo, anglesImgInfo, fmaskCalls>>
    /\ UNCHANGED <<bufferArgs, fmaskConfig>>
    /\ calls' = Append(calls, Call("makeAngles", {xmlfile, AnglesTmp}))

\* The orders in which the disk may list the files of IMG_DATA: by band,
\* by band backwards, and neither.
Ascending == [i \in 1..Len(bandList) |-> i]
Descending == [i \in 1..Len(bandList) |-> Len(bandList) + 1 - i]
Scrambled == [i \in 1..Len(bandList) |-> ((i * 5) % Len(bandList)) + 1]
Orders == {Ascending, Descending, Scrambled}

\* The c files *_<band>.jp2 of a directory.
BandFiles(band, c) == [n \in 1..c |-> [band |-> band, n |-> n]]

\* IMG_DATA listed in `order`, one file per band but c files of band k
\* (k = 0: one file of every band).
RECURSIVE Listing(_, _, _, _)
Listing(order, i, k, c) ==
    IF i > Len(order)
    THEN <<>>
    ELSE BandFiles(bandList[order[i]], IF order[i] = k THEN c ELSE 1)
             \o Listing(order, i + 1, k, c)

\* The directories a run may meet: complete in every order, and with one
\* band missing or multiple.
ImgDirs ==
    {Listing(o, 1, 0, 1) : o \in Orders}
        \cup {Listing(Scrambled, 1, k, c) :
                k \in 1..Len(bandList), c \in (0..MaxMatches) \ {1}}

\* Line 199: glob of <imgDir>/*_<band>.jp2.
GlobBand(dir, band) == SelectSeq(dir, LAMBDA f : f.band = band)

\* Line 200 testing only for no match: the first of several is taken.
BandFound_AtLeastOne(inBandImgList) == Len(inBandImgList) >= 1

\* Line 200: exactly one source file is wanted.
BandFound(inBandImgList) == Len(inBandImgList) = 1

\* Line 195: the band of the i-th iteration of the loop.
BandAt(i) == bandList[i]

\* Lines 237-242 with the two resampling cases exchanged.
chooseResampleMethod_Swapped(outpixsize, inPixsize) ==
    IF outpixsize = inPixsize
    THEN "near"
    ELSE IF outpixsize > inPixsize
    THEN "cubic"
    ELSE "average"

\* Lines 230-244, on the xRes read from the image.
chooseResampleMethod(outpixsize, inPixsize) ==
    IF outpixsize = inPixsize
    THEN "near"
    ELSE IF outpixsize > inPixsize
    THEN "average"
    ELSE "cubic"

\* Line 210 with the intermediate put at the head of the list.
AppendBand_Prepend(list, tmpBand) == <<tmpBand>> \o list

\* Line 210: the intermediate joins the list.
AppendBand(list, tmpBand) == Append(list, tmpBand)

\* Lines 195-210: one iteration of the loop over bandList.
ResampleBand ==
    /\ pc = "resampleBands"
    /\ Len(resampledBands) < Len(bandList)
    /\ LET band == BandAt(Len(resampledBands) + 1)
           tmpBand == TmpBand(band)
       IN  /\ tmpBand \notin disk
           /\ disk' = disk \cup {tmpBand}
           /\ created' = created \cup {tmpBand}
           /\ \E dir \in (IF Len(resampledBands) = 0 THEN ImgDirs ELSE {imgDir}) :
                LET inBandImgList == GlobBand(dir, band)
                IN  /\ imgDir' = dir
                    /\ IF ~BandFound(inBandImgList)
                       THEN /\ Fail(Raise("FmaskFileError", "band", band))
                            /\ calls' = Append(calls, Call("glob_" \o band, {}))
                            /\ UNCHANGED <<resampledBands, vrtSrc, lastWarp>>
                       ELSE \E inPixsize \in PixSizes, ok \in BOOLEAN :
                              LET inBandImg == inBandImgList[1]
                                  resampleMethod ==
                                      chooseResampleMethod(cmdargs.pixsize, inPixsize)
                              IN  /\ calls' = calls \o
                                         <<Call("glob_" \o band, {}),
                                           Call("gdalwarp_" \o band, {tmpBand})>>
                                  /\ lastWarp' =
                                         [band |-> band, src |-> inBandImg.band,
                                          inPixsize |-> inPixsize,
                                          outPixsize |-> cmdargs.pixsize,
                                          method |-> resampleMethod]
                                  /\ IF ok
                                     THEN /\ vrtSrc' = Append(vrtSrc,
                                                 [vrt |-> tmpBand, src |-> inBandImg])
                                          /\ resampledBands' =
                                                 AppendBand(resampledBands, tmpBand)
                                          /\ pc' = IF Len(resampledBands') = Len(bandList)
                                                   THEN "makeStack"
                                                   ELSE "resampleBands"
                                          /\ err' = err
                                     ELSE /\ Fail(Raise("CalledProcessError",
                                                        "gdalwarp", band))
                                          /\ UNCHANGED <<resampledBands, vrtSrc>>
    /\ UNCHANGED <<argv, cmdargs, deleted, granuleDirList, xmlDir, xmlfile,
                   mergeCalls, tempStack, anglesfile, toaImgInfo, anglesImgInfo,
                   fmaskCalls>>
    /\ UNCHANGED <<bufferArgs, fmaskConfig>>

\* Line 218 leaving a stack the caller named in place.
SetToa_KeepGiven(a, tmpStack) ==
    IF a.toa = None THEN [a EXCEPT !.toa = tmpStack] ELSE a

\* Line 218: the stack of this run replaces whatever --toa named.
SetToa(a, tmpStack) == [a EXCEPT !.toa = tmpStack]

\* Lines 215-222: the stack file, and the call of gdal_merge.py.
MakeStack ==
    /\ pc = "makeStack"
    /\ TmpStack \notin disk
    /\ disk' = disk \cup {TmpStack}
    /\ created' = created \cup {TmpStack}
    /\ cmdargs' = SetToa(cmdargs, TmpStack)
    /\ mergeCalls' = Append(mergeCalls, resampledBands)
    /\ \E ok \in BOOLEAN :
         IF ok
         THEN pc' = "removeBands" /\ err' = err
         ELSE Fail(Raise("CalledProcessError", "gdal_merge", "none"))
    /\ UNCHANGED <<argv, deleted, granuleDirList, xmlDir, xmlfile, imgDir,
                   resampledBands, vrtSrc, lastWarp, tempStack, anglesfile,
                   toaImgInfo, anglesImgInfo, fmaskCalls>>
    /\ UNCHANGED <<bufferArgs, fmaskConfig>>
    /\ calls' = Append(calls, Call("gdal_merge", Range(resampledBands) \cup {TmpStack}))

\* Line 224 with the removal depending on keepintermediates.
BandsToRemove_UnlessKept(list) ==
    IF cmdargs.keepintermediates THEN {} ELSE Range(list)

\* Line 224 with the stack removed along with the intermediates.
BandsToRemove_WithStack(list) == Range(list) \cup {TmpStack}

\* Line 224: the files the loop removes.
BandsToRemove(list) == Range(list)

\* Lines 224-227: the band intermediates go, and makeStackAndAngles returns.
RemoveBands ==
    /\ pc = "removeBands"
    /\ BandsToRemove(resampledBands) \subseteq disk
    /\ disk' = disk \ BandsToRemove(resampledBands)
    /\ deleted' = deleted \cup Removed(BandsToRemove(resampledBands), "bands")
    /\ pc' = "checkAnglesFile"
    /\ UNCHANGED <<argv, cmdargs, err, created, granuleDirList, xmlDir, xmlfile,
                   imgDir, resampledBands, vrtSrc, lastWarp, mergeCalls,
                   tempStack, anglesfile, toaImgInfo, anglesImgInfo, fmaskCalls>>
    /\ UNCHANGED <<bufferArgs, fmaskConfig, calls>>

\* Lines 206-207: every band is resampled to pixsize, and so is the stack.
BuiltStackGrid(a) == [xRes |-> a.pixsize, yRes |-> a.pixsize]

\* Line 151 comparing the x resolution alone.
GridsDiffer_XOnly(toaInfo, anglesInfo) == toaInfo.xRes # anglesInfo.xRes

\* Line 151: the test of checkAnglesFile on the two resolutions.
GridsDiffer(toaInfo, anglesInfo) ==
    toaInfo.xRes # anglesInfo.xRes \/ toaInfo.yRes # anglesInfo.yRes

\* Lines 150-160: the angles file checkAnglesFile returns.
checkAnglesFile(inputAnglesFile, toaInfo, anglesInfo) ==
    IF GridsDiffer(toaInfo, anglesInfo) THEN AnglesVrt ELSE inputAnglesFile

\* Lines 295 and 146-160: checkAnglesFile(cmdargs.anglesfile, cmdargs.toa).
CheckAnglesFile ==
    /\ pc = "checkAnglesFile"
    /\ \E toaInfo \in (IF tempStack THEN {BuiltStackGrid(cmdargs)} ELSE Grids),
          anglesInfo \in Grids :
         /\ toaImgInfo' = toaInfo
         /\ anglesImgInfo' = anglesInfo
         /\ calls' = calls \o
                <<Call("ImageInfo_toafile", {cmdargs.toa}),
                  Call("ImageInfo_inputAnglesFile", {cmdargs.anglesfile})>>
                \o (IF GridsDiffer(toaInfo, anglesInfo)
                    THEN <<Call("gdalwarp_angles", {cmdargs.anglesfile, AnglesVrt})>>
                    ELSE <<>>)
         /\ IF GridsDiffer(toaInfo, anglesInfo)
            THEN /\ AnglesVrt \notin disk
                 /\ disk' = disk \cup {AnglesVrt}
                 /\ created' = created \cup {AnglesVrt}
                 /\ \E ok \in BOOLEAN :
                      IF ok
                      THEN /\ anglesfile' =
                                  checkAnglesFile(cmdargs.anglesfile, toaInfo, anglesInfo)
                           /\ pc' = "configure"
                           /\ err' = err
                      ELSE /\ anglesfile' = anglesfile
                           /\ Fail(Raise("CalledProcessError", "checkAnglesFile",
                                         "none"))
            ELSE /\ anglesfile' =
                        checkAnglesFile(cmdargs.anglesfile, toaInfo, anglesInfo)
                 /\ pc' = "configure"
                 /\ UNCHANGED <<err, disk, created>>
    /\ UNCHANGED <<argv, cmdargs, deleted, granuleDirList, xmlDir, xmlfile,
                   imgDir, resampledBands, vrtSrc, lastWarp, mergeCalls,
                   tempStack, fmaskCalls>>
    /\ UNCHANGED <<bufferArgs, fmaskConfig>>

\* Python's int() of n / d for d > 0: the quotient cut towards zero.
IntOfQuotient(n, d) == IF n >= 0 THEN n \div d ELSE -((-n) \div d)

\* Lines 316-317 dividing by the requested pixel size.
BufferSize_ByPixsize(distance, xRes) == IntOfQuotient(distance, cmdargs.pixsize)

\* Lines 316-317: int(distance / toaImgInfo.xRes).
BufferSize(distance, xRes) == IntOfQuotient(distance, xRes)

\* Lines 296-317: the file names and the configuration handed to fmask.
\* Line 315 reads the pixel size of cmdargs.toa again, the file line 146 read.
Configure ==
    /\ pc = "configure"
    /\ pc' = "doFmask"
    /\ \E b \in BufferDistances :
         /\ bufferArgs' = b
         /\ fmaskConfig' =
                [cloudBufferSize |->
                     BufferSize(b.cloudbufferdistance, toaImgInfo.xRes),
                 shadowBufferSize |->
                     BufferSize(b.shadowbufferdistance, toaImgInfo.xRes)]
    /\ calls' = Append(calls, Call("ImageInfo_toa", {cmdargs.toa}))
    /\ UNCHANGED <<argv, cmdargs, err, disk, created, deleted, granuleDirList,
                   xmlDir, xmlfile, imgDir, resampledBands, vrtSrc, lastWarp,
                   mergeCalls, tempStack, anglesfile, toaImgInfo, anglesImgInfo,
                   fmaskCalls>>

\* Line 319: fmask.doFmask, which writes the cloud mask.
DoFmask ==
    /\ pc = "doFmask"
    /\ fmaskCalls' = Append(fmaskCalls,
           [toa |-> cmdargs.toa, angles |-> anglesfile, output |-> cmdargs.output,
            cloudBufferSize |-> fmaskConfig.cloudBufferSize,
            shadowBufferSize |-> fmaskConfig.shadowBufferSize])
    /\ \E ok \in BOOLEAN :
         IF ok
         THEN /\ disk' = disk \cup {cmdargs.output}
              /\ pc' = "removeTempAngles"
              /\ err' = err
         ELSE /\ disk' = disk
              /\ Fail(Raise("FmaskError", "doFmask", "none"))
    /\ UNCHANGED <<argv, cmdargs, created, deleted, granuleDirList, xmlDir,
                   xmlfile, imgDir, resampledBands, vrtSrc, lastWarp, mergeCalls,
                   tempStack, anglesfile, toaImgInfo, anglesImgInfo>>
    /\ UNCHANGED <<bufferArgs, fmaskConfig>>
    /\ calls' = Append(calls, Call("doFmask", {cmdargs.toa, anglesfile, cmdargs.output}))

\* Line 321 with the comparison left out: the angles file in use always goes.
IsTempAngles_Always(af, a) == TRUE

\* Line 321: the angles file in use is one checkAnglesFile made.
IsTempAngles(af, a) == af # a.anglesfile

\* Lines 321-323.
RemoveTempAngles ==
    /\ pc = "removeTempAngles"
    /\ IF IsTempAngles(anglesfile, cmdargs)
       THEN /\ anglesfile \in disk
            /\ disk' = disk \ {anglesfile}
            /\ deleted' = deleted \cup Removed({anglesfile}, "angles")
       ELSE UNCHANGED <<disk, deleted>>
    /\ pc' = "removeTempStack"
    /\ UNCHANGED <<argv, cmdargs, err, created, granuleDirList, xmlDir, xmlfile,
                   imgDir, resampledBands, vrtSrc, lastWarp, mergeCalls,
                   tempStack, anglesfile, toaImgInfo, anglesImgInfo, fmaskCalls>>
    /\ UNCHANGED <<bufferArgs, fmaskConfig, calls>>

\* Line 325 without the test of keepintermediates.
RemovesStack_IgnoresKeep(ts, a) == ts

\* Line 325: whether the stack and the angles image of this run go.
RemovesStack(ts, a) == ts /\ ~a.keepintermediates

\* Line 326 with the angles image forgotten.
StackFiles_ToaOnly(a) == {a.toa}

\* Line 326: the files that go.
StackFiles(a) == {a.toa, a.anglesfile}

\* Lines 325-328, after which mainRoutine returns.
RemoveTempStack ==
    /\ pc = "removeTempStack"
    /\ IF RemovesStack(tempStack, cmdargs)
       THEN /\ disk' = disk \ StackFiles(cmdargs)
            /\ deleted' = deleted \cup Removed(StackFiles(cmdargs) \cap disk, "stack")
       ELSE UNCHANGED <<disk, deleted>>
    /\ pc' = "done"
    /\ UNCHANGED <<argv, cmdargs, err, created, granuleDirList, xmlDir, xmlfile,
                   imgDir, resampledBands, vrtSrc, lastWarp, mergeCalls,
                   tempStack, anglesfile, toaImgInfo, anglesImgInfo, fmaskCalls>>
    /\ UNCHANGED <<bufferArgs, fmaskConfig, calls>>

Next ==
    \/ LoadModule
    \/ GetCmdargs
    \/ StartMain
    \/ FindGranuleDirStep
    \/ FindGdalMerge
    \/ MkstempAngles
    \/ FindGranuleXmlStep
    \/ MakeAngles
    \/ ResampleBand
    \/ MakeStack
    \/ RemoveBands
    \/ CheckAnglesFile
    \/ Configure
    \/ DoFmask
    \/ RemoveTempAngles
    \/ RemoveTempStack

Spec == Init /\ [][Next]_vars

(***************************************************************************)
(* The properties checked of the run.                                      *)
(***************************************************************************)

\* The paths the run removed.
DeletedPaths == {d.path : d \in deleted}

\* The temporary files of a run that builds its stack, but for the
\* derivative of checkAnglesFile.
BuildTemporaries == AllTmpBands \cup {TmpStack, AnglesTmp}

\* C1: a run that ends with an error, retention disabled, leaves none of the
\* temporary files it had created on disk.
C1_FailureLeavesNoTemporary ==
    (pc = "failed" /\ ~cmdargs.keepintermediates) => created \cap disk = {}

\* C2: a stack or angles file the caller supplied is never deleted: every
\* path the run removes is one the run created, and the caller's files stay
\* on disk.
C2_CallerFilesNeverDeleted ==
    /\ DeletedPaths \subseteq created
    /\ UserFiles(argv) \cap DeletedPaths = {}
    /\ UserFiles(argv) \subseteq disk

\* A run on the caller's stack and angles has removed its derivative and returned.
C2_Witness ==
    /\ pc = "done"
    /\ argv.toa = UserToa /\ argv.anglesfile = UserAngles
    /\ AnglesVrt \in DeletedPaths

\* C3: after a successful run with retention disabled no temporary file of
\* the run remains; a run that built its stack made and removed the 13 band
\* intermediates, the stack and the angles image, and a derivative of the
\* angles file, when the grids differed, was made and removed.
C3_NoTemporaryRemains ==
    (pc = "done" /\ ~cmdargs.keepintermediates) =>
        /\ created \cap disk = {}
        /\ created \subseteq DeletedPaths
        /\ tempStack => BuildTemporaries \subseteq created
        /\ GridsDiffer(toaImgInfo, anglesImgInfo) => AnglesVrt \in created
        /\ Cardinality(AllTmpBands) = Len(bandList)

\* A run from a granule, grids differing, retention disabled, has returned.
C3_Witness ==
    /\ pc = "done"
    /\ ~cmdargs.keepintermediates
    /\ tempStack
    /\ AnglesVrt \in created

\* C4: after a successful run from an archive or a granule with retention
\* enabled, the built stack and the computed angles image are still on disk,
\* and the derivative of the angles file and the band intermediates are not.
C4_RetentionKeepsStackAndAngles ==
    (pc = "done" /\ cmdargs.keepintermediates /\ tempStack) =>
        /\ cmdargs.toa = TmpStack /\ TmpStack \in disk
        /\ cmdargs.anglesfile = AnglesTmp /\ AnglesTmp \in disk
        /\ AnglesVrt \notin disk
        /\ AllTmpBands \subseteq created
        /\ AllTmpBands \cap disk = {}

\* A run from an archive, grids differing, retention enabled, has returned.
C4_Witness ==
    /\ pc = "done"
    /\ cmdargs.keepintermediates
    /\ argv.safedir # None
    /\ AnglesVrt \in DeletedPaths

\* C5: discovery succeeds on exactly one granule directory and a resolvable
\* metadata file, and when it fails, at either level, the run has written
\* nothing to the file system.
C5_DiscoveryFailsWithoutWrites ==
    /\ Len(granuleDirList) = 1 => cmdargs.granuledir = granuleDirList[1]
    /\ (xmlDir # <<>> /\ (Exists(xmlDir, MtdTl) \/ Len(GlobXml(xmlDir)) = 1)) =>
           xmlfile # None
    /\ (pc = "failed" /\ err.at \in {"findGranuleDir", "findGranuleXml"}) =>
           /\ err.kind = "FmaskFileError"
           /\ created = {}
           /\ disk = UserFiles(argv)

\* C6: each band is resampled with the method its own pixel size calls for:
\* near iff the output size equals it, average iff the output size is
\* larger, cubic iff the output size is smaller.
C6_ResampleMethodPartition ==
    lastWarp # NoWarp =>
        LET out == lastWarp.outPixsize
            in == lastWarp.inPixsize
            m == lastWarp.method
        IN  /\ m \in {"near", "average", "cubic"}
            /\ (m = "near") <=> (out = in)
            /\ (m = "average") <=> (out > in)
            /\ (m = "cubic") <=> (out < in)
            /\ out = cmdargs.pixsize
            /\ lastWarp.src = lastWarp.band

\* The last band of a 20 m stack was read at 60 m and resampled.
C6_Witness ==
    /\ pc = "makeStack"
    /\ cmdargs.pixsize = 20
    /\ lastWarp.band = "B12"
    /\ lastWarp.inPixsize = 60
    /\ lastWarp.method = "cubic"

\* C7: the N-th input of every merge is the intermediate of the N-th band
\* of bandList, made from that band's source file, each band once, whatever
\* the order in which the disk lists the sources.
C7_MergeInputsInBandOrder ==
    \A c \in 1..Len(mergeCalls) :
        /\ Len(mergeCalls[c]) = Len(bandList)
        /\ Len(vrtSrc) = Len(bandList)
        /\ \A n \in 1..Len(bandList) :
             /\ mergeCalls[c][n] = TmpBand(bandList[n])
             /\ vrtSrc[n].vrt = mergeCalls[c][n]
             /\ vrtSrc[n].src.band = bandList[n]
        /\ \A n, m \in 1..Len(bandList) :
             n # m => mergeCalls[c][n] # mergeCalls[c][m]

\* The merge was called on a directory listed against the band order.
C7_Witness ==
    /\ Len(mergeCalls) = 1
    /\ imgDir = Listing(Descending, 1, 0, 1)

\* The bands of which IMG_DATA holds no file, or several.
UnresolvedBands(dir) ==
    {bandList[i] : i \in {j \in 1..Len(bandList) :
                            Len(GlobBand(dir, bandList[j])) # 1}}

\* C8: when a band has no source file or several, no resample is made for
\* it and none after it, the merge is never called, no stack file is made,
\* the run does not complete, and the file error of the loop names that band.
C8_UnresolvedBandMakesNoStack ==
    (imgDir # <<>> /\ UnresolvedBands(imgDir) # {}) =>
        /\ mergeCalls = <<>>
        /\ TmpStack \notin created
        /\ pc \notin {"makeStack", "removeBands", "checkAnglesFile", "configure",
                      "doFmask", "removeTempAngles", "removeTempStack", "done"}
        /\ \A i \in 1..Len(resampledBands) : bandList[i] \notin UnresolvedBands(imgDir)
        /\ lastWarp.band \notin UnresolvedBands(imgDir)
        /\ (pc = "failed" /\ err.at = "band") =>
               /\ err.kind = "FmaskFileError"
               /\ err.band \in UnresolvedBands(imgDir)
               /\ err.band = bandList[Len(resampledBands) + 1]
        /\ (pc = "failed" /\ bandList[Len(resampledBands) + 1] \in UnresolvedBands(imgDir)) =>
               err = Raise("FmaskFileError", "band", bandList[Len(resampledBands) + 1])

\* Two files match *_B02.jp2 and the run has failed on B02.
C8_Witness ==
    /\ pc = "failed"
    /\ Len(GlobBand(imgDir, "B02")) = 2
    /\ err = Raise("FmaskFileError", "band", "B02")

\* C9: once checkAnglesFile has returned: if the two pixel sizes are equal
\* in both axes it returned the path it was given, made no file, and that
\* path is not removed as a derivative, and checking it again returns it
\* again; if they differ in an axis it returned a new file, another path,
\* which is removed as a derivative before the run returns.
C9_Reconciliation ==
    anglesfile # None =>
        IF toaImgInfo.xRes = anglesImgInfo.xRes /\ toaImgInfo.yRes = anglesImgInfo.yRes
        THEN /\ anglesfile = cmdargs.anglesfile
             /\ AnglesVrt \notin created
             /\ \A d \in deleted : d.by # "angles"
             /\ checkAnglesFile(anglesfile, toaImgInfo, anglesImgInfo) = anglesfile
        ELSE /\ anglesfile = AnglesVrt
             /\ anglesfile # cmdargs.anglesfile
             /\ AnglesVrt \in created
             /\ pc \in {"removeTempStack", "done"} =>
                    [path |-> AnglesVrt, by |-> "angles"] \in deleted

\* The grids differed in the y axis alone and the run has returned.
C9_Witness ==
    /\ pc = "done"
    /\ toaImgInfo.xRes = anglesImgInfo.xRes
    /\ toaImgInfo.yRes # anglesImgInfo.yRes
    /\ anglesfile = AnglesVrt

\* The *.xml files of a granule directory other than MTD_TL.xml.
OtherXmls(dir) == {f \in Range(dir) : IsXml(f) /\ f # MtdTl}

\* C10: once findGranuleXml has run: MTD_TL.xml is returned if the granule
\* directory holds it, whatever else it holds; otherwise the only *.xml file
\* is returned if there is exactly one, and a file error is raised if there
\* is none or several.
C10_LocateMetadata ==
    xmlDir # <<>> =>
        IF MtdTl \in Range(xmlDir)
        THEN xmlfile = MtdTl /\ err.at # "findGranuleXml"
        ELSE IF Cardinality(OtherXmls(xmlDir)) = 1
        THEN xmlfile \in OtherXmls(xmlDir) /\ err.at # "findGranuleXml"
        ELSE /\ pc = "failed"
             /\ err = Raise("FmaskFileError", "findGranuleXml", "none")
             /\ xmlfile = None

\* MTD_TL.xml was returned from a directory with other XML files in it.
C10_Witness ==
    /\ xmlfile = MtdTl
    /\ Cardinality(OtherXmls(xmlDir)) >= 2
    /\ pc = "makeAngles"

\* The names of the operations called so far, in order.
CallNames == [i \in 1..Len(calls) |-> calls[i].name]

\* The calls of external tools among them.
ToolCalls ==
    {n \in Range(CallNames) :
        n \notin {"findGranuleDir", "findGranuleXml", "ImageInfo_toafile",
                  "ImageInfo_inputAnglesFile", "ImageInfo_toa"}
        /\ \A i \in 1..Len(bandList) : n # "glob_" \o bandList[i]}

\* The arguments name a raw archive option, and the pre-built inputs.
RawGiven(a) == a.safedir # None \/ a.granuledir # None
PreBuiltGiven(a) == a.toa # None /\ a.anglesfile # None

\* getCmdargs has run.
ArgsChecked == pc \notin {"import", "getCmdargs"} /\ err.at # "import"

\* C11 as stated: getCmdargs returns only on an output path and exactly one
\* input mode, and exits when a raw archive option comes with --toa and/or
\* --anglesfile.
C11_ExclusiveModesStrict ==
    ArgsChecked =>
        ((pc # "exited") <=>
            /\ argv.output # None
            /\ \/ /\ argv.safedir # None /\ argv.granuledir = None
                  /\ argv.toa = None /\ argv.anglesfile = None
               \/ /\ argv.granuledir # None /\ argv.safedir = None
                  /\ argv.toa = None /\ argv.anglesfile = None
               \/ /\ PreBuiltGiven(argv)
                  /\ argv.safedir = None /\ argv.granuledir = None)

\* C11, amended: getCmdargs returns exactly when an output path is given and
\* either one of --safedir and --granuledir is given without both --toa and
\* --anglesfile, or both --toa and --anglesfile are given without either
\* directory; otherwise it exits with status 1.  A raw archive option with
\* only one of --toa and --anglesfile is accepted.
C11_ExclusiveModes ==
    ArgsChecked =>
        /\ (pc # "exited") <=>
              /\ argv.output # None
              /\ \/ /\ (argv.safedir # None) # (argv.granuledir # None)
                    /\ ~PreBuiltGiven(argv)
                 \/ /\ PreBuiltGiven(argv)
                    /\ argv.safedir = None /\ argv.granuledir = None
        /\ (pc = "exited") => err.kind = "SystemExit"

\* --safedir came with --toa alone and getCmdargs returned.
C11_Witness ==
    /\ pc = "main"
    /\ argv.safedir # None
    /\ argv.toa # None
    /\ argv.anglesfile = None

\* The merge has returned and line 224 has been passed.
MergeDone ==
    /\ Len(mergeCalls) = 1
    /\ pc # "removeBands"
    /\ err.at # "gdal_merge"

\* C12: once the merge has succeeded and makeStackAndAngles has returned,
\* each of the 13 band intermediates was made and has been removed, whatever
\* keepintermediates is, and that is before checkAnglesFile and fmask run.
C12_BandIntermediatesRemoved ==
    /\ MergeDone =>
          /\ Cardinality(AllTmpBands) = Len(bandList)
          /\ AllTmpBands \subseteq created
          /\ AllTmpBands \cap disk = {}
          /\ \A f \in AllTmpBands : [path |-> f, by |-> "bands"] \in deleted
    /\ (tempStack /\ ({"ImageInfo_toafile", "doFmask"} \cap Range(CallNames) # {})) =>
          MergeDone

\* Retention is on, the merge is done and checkAnglesFile is next.
C12_Witness ==
    /\ pc = "checkAnglesFile"
    /\ cmdargs.keepintermediates
    /\ tempStack
    /\ Len(mergeCalls) = 1

\* The operations a run makes when nothing fails, in order.
RECURSIVE BandOps(_)
BandOps(i) ==
    IF i > Len(bandList)
    THEN <<>>
    ELSE <<"glob_" \o bandList[i], "gdalwarp_" \o bandList[i]>> \o BandOps(i + 1)

Pipeline ==
    (IF RawGiven(argv)
     THEN (IF argv.safedir # None /\ argv.granuledir = None
           THEN <<"findGranuleDir">> ELSE <<>>)
              \o <<"findGranuleXml", "makeAngles">> \o BandOps(1) \o <<"gdal_merge">>
     ELSE <<>>)
        \o <<"ImageInfo_toafile", "ImageInfo_inputAnglesFile">>
        \o (IF toaImgInfo.xRes # anglesImgInfo.xRes \/ toaImgInfo.yRes # anglesImgInfo.yRes
            THEN <<"gdalwarp_angles">> ELSE <<>>)
        \o <<"ImageInfo_toa", "doFmask">>

\* The operation an exception names.
FailedOp(e) ==
    CASE e.at = "band" -> "glob_" \o e.band
      [] e.at = "gdalwarp" -> "gdalwarp_" \o e.band
      [] e.at = "checkAnglesFile" -> "gdalwarp_angles"
      [] OTHER -> e.at

\* C13: a failure ends the run: the operations called are always a
\* beginning of the pipeline, each called once; when the run has failed the
\* last operation called is the one that failed; two GRANULE/L1C_*
\* directories fail the run with nothing computed, resampled or made; and
\* fmask is not called, and no mask is written, after another step failed.
C13_FailuresAreFatal ==
    /\ Len(calls) <= Len(Pipeline)
    /\ CallNames = SubSeq(Pipeline, 1, Len(calls))
    /\ Len(mergeCalls) <= 1 /\ Len(fmaskCalls) <= 1
    /\ (pc = "failed" /\ err.at \notin {"import", "find_executable"}) =>
           /\ calls # <<>>
           /\ calls[Len(calls)].name = FailedOp(err)
    /\ Len(granuleDirList) >= 2 =>
           /\ pc = "failed"
           /\ CallNames = <<"findGranuleDir">>
           /\ created = {} /\ lastWarp = NoWarp /\ cmdargs.anglesfile = argv.anglesfile
    /\ (pc = "failed" /\ err.at # "doFmask") =>
           fmaskCalls = <<>> /\ UserOutput \notin disk

\* An archive with two granule directories has failed the run.
C13_Witness ==
    /\ pc = "failed"
    /\ Len(granuleDirList) = 2
    /\ err.at = "findGranuleDir"

\* C14 as stated: when gdalwarp or gdal_merge.py is not found the run has
\* failed before archive discovery, before any temporary file and before
\* any external tool.
C14_ToolsCheckedAtStartup ==
    (pc = "failed" /\ err.kind = "FmaskInstallationError") =>
        /\ calls = <<>>
        /\ granuleDirList = <<>>
        /\ created = {}

\* C14, amended: when gdalwarp is not found the run fails at import, before
\* anything else; when gdal_merge.py is not found, a run that builds its
\* stack fails before any temporary file is made and before any external
\* tool is called, but after findGranuleDir has searched the archive when
\* --safedir was given; a run on a pre-built stack and angles file does not
\* look for gdal_merge.py.
C14_ToolsCheckedBeforeWork ==
    /\ (pc = "failed" /\ err.kind = "FmaskInstallationError") =>
           /\ created = {}
           /\ disk = UserFiles(argv)
           /\ ToolCalls = {}
           /\ err.at = "import" =>
                  /\ calls = <<>>
                  /\ granuleDirList = <<>>
           /\ err.at = "find_executable" =>
                  /\ RawGiven(argv)
                  /\ CallNames = (IF argv.safedir # None /\ argv.granuledir = None
                                  THEN <<"findGranuleDir">> ELSE <<>>)
                  /\ argv.safedir # None => Len(granuleDirList) = 1
    /\ (created # {} \/ ToolCalls # {}) => err.kind # "FmaskInstallationError"

\* gdal_merge.py was not found, after the archive was searched.
C14_Witness ==
    /\ pc = "failed"
    /\ err = Raise("FmaskInstallationError", "find_executable", "none")
    /\ Len(granuleDirList) = 1

\* C15: a run given a stack and an angles file and neither directory does
\* no discovery, computes no angles, resamples no band, merges nothing,
\* makes no stack and no band intermediate, and hands the caller's stack to
\* fmask.
C15_PreBuiltInputsBypass ==
    (argv.safedir = None /\ argv.granuledir = None) =>
        /\ ~tempStack
        /\ granuleDirList = <<>> /\ xmlDir = <<>> /\ imgDir = <<>>
        /\ lastWarp = NoWarp /\ resampledBands = <<>> /\ mergeCalls = <<>>
        /\ Range(CallNames) \subseteq
               {"ImageInfo_toafile", "ImageInfo_inputAnglesFile", "gdalwarp_angles",
                "ImageInfo_toa", "doFmask"}
        /\ created \subseteq {AnglesVrt}
        /\ cmdargs.toa = argv.toa
        /\ \A i \in 1..Len(fmaskCalls) : fmaskCalls[i].toa = UserToa

\* fmask was called on the caller's stack.
C15_Witness ==
    /\ Len(fmaskCalls) = 1
    /\ argv.toa = UserToa /\ argv.anglesfile = UserAngles
    /\ argv.safedir = None /\ argv.granuledir = None

\* n is distance / xRes cut towards zero.
IsTruncatedQuotient(n, distance, xRes) ==
    IF distance >= 0
    THEN n >= 0 /\ n * xRes <= distance /\ distance < (n + 1) * xRes
    ELSE n <= 0 /\ n * xRes >= distance /\ distance > (n - 1) * xRes

\* C16: each buffer size given to fmask is the buffer distance divided by
\* the pixel size of the stack given to fmask, cut to an integer; that pixel
\* size is the one read from the stack, which is --pixsize only for a stack
\* this run built.
C16_BufferSizes ==
    \A i \in 1..Len(fmaskCalls) :
        LET c == fmaskCalls[i]
            xRes == toaImgInfo.xRes
        IN  /\ c.toa = cmdargs.toa
            /\ xRes > 0
            /\ IsTruncatedQuotient(c.cloudBufferSize,
                                   bufferArgs.cloudbufferdistance, xRes)
            /\ IsTruncatedQuotient(c.shadowBufferSize,
                                   bufferArgs.shadowbufferdistance, xRes)
            /\ tempStack => (c.toa = TmpStack /\ xRes = cmdargs.pixsize)

\* fmask was given 150 m over the 20 m of the caller's stack, with
\* --pixsize and the angles file at 10 m.
C16_Witness ==
    /\ Len(fmaskCalls) = 1
    /\ ~tempStack
    /\ toaImgInfo.xRes = 20
    /\ cmdargs.pixsize = 10
    /\ anglesImgInfo.xRes = 10
    /\ bufferArgs.cloudbufferdistance = 150
    /\ fmaskCalls[1].cloudBufferSize = 7

\* No statement after the call of fmask has run yet.
BeforeCleanup == pc \notin {"removeTempStack", "done"}

\* C17: when fmask is called and when it returns, the stack and the angles
\* file given to it exist; until it has returned the run has removed nothing
\* but band intermediates, and those only after the merge succeeded.
C17_InputsExistDuringFmask ==
    /\ pc = "doFmask" => (cmdargs.toa \in disk /\ anglesfile \in disk)
    /\ (pc = "removeTempAngles" \/ (pc = "failed" /\ err.at = "doFmask")) =>
           /\ Len(fmaskCalls) = 1
           /\ fmaskCalls[1].toa \in disk
           /\ fmaskCalls[1].angles \in disk
    /\ BeforeCleanup =>
           /\ DeletedPaths \subseteq AllTmpBands
           /\ \A d \in deleted : d.by = "bands"
           /\ {TmpStack, AnglesTmp, AnglesVrt} \cap DeletedPaths = {}
           /\ deleted # {} => (Len(mergeCalls) = 1 /\ err.at # "gdal_merge")

\* fmask has just returned to a run that built its stack and a derivative
\* of the angles.
C17_Witness ==
    /\ pc = "removeTempAngles"
    /\ tempStack
    /\ anglesfile = AnglesVrt
    /\ deleted # {}

\* makeStackAndAngles has returned.
StackAndAnglesMade ==
    /\ tempStack
    /\ \/ pc \in {"checkAnglesFile", "configure", "doFmask", "removeTempAngles",
                  "removeTempStack", "done"}
       \/ pc = "failed" /\ err.at \in {"checkAnglesFile", "doFmask"}

\* C18: in a run given --safedir or --granuledir, checkAnglesFile and fmask
\* work on the stack and the angles image this run built; a --toa or an
\* --anglesfile given alongside is replaced in cmdargs, is given to no
\* operation, and is never removed.
C18_BuiltInputsUsed ==
    (RawGiven(argv) /\ ArgsChecked /\ pc # "exited") =>
        /\ StackAndAnglesMade =>
               /\ cmdargs.toa = TmpStack
               /\ cmdargs.anglesfile = AnglesTmp
        /\ \A i \in 1..Len(calls) : calls[i].files \cap UserFiles(argv) = {}
        /\ \A i \in 1..Len(fmaskCalls) :
               /\ fmaskCalls[i].toa = TmpStack
               /\ fmaskCalls[i].angles \in {AnglesTmp, AnglesVrt}
        /\ UserFiles(argv) \cap DeletedPaths = {}
        /\ UserFiles(argv) \subseteq disk

\* A run given --granuledir and --toa has returned, its own stack removed.
C18_Witness ==
    /\ pc = "done"
    /\ argv.granuledir # None
    /\ argv.toa = UserToa
    /\ TmpStack \in DeletedPaths
====
